---- MODULE Spec2Model ----
(***************************************************************************)
(* A model of queue.c: a queue of strings kept in a circular, doubly       *)
(* linked list with a sentinel (struct list_head), and the structural      *)
(* algorithms over it (middle, delete-dup, swap, reverse, merge sort).     *)
(*                                                                         *)
(* Memory is a heap of list_head records addressed by integers.  0 is the  *)
(* NULL pointer, QHead is the block q_new() allocates, 1..MaxElems are the *)
(* element_t blocks, and the negative addresses below QHead are the        *)
(* automatic LIST_HEAD(head2) objects of the active q_sort frames.         *)
(***************************************************************************)
EXTENDS Integers, Sequences, FiniteSets, Bags, TLC

\* ---------------------------------------------------------------- bounds
MaxElems == 4      \* element_t blocks the allocator can hand out
MaxLive == 3       \* allocated elements at a time when the queue is driven from q_new
MaxChar == 1       \* characters of the alphabet are 1..MaxChar (0 is the terminator)
MaxStrings == 3    \* the lists the algorithms start from hold the first MaxStrings strings
MaxInserted == 2   \* the driver inserts the first MaxInserted strings
MaxBuf == 2        \* largest bufsize passed to a remove
SizeBits == 8      \* modelled width of size_t

\* ------------------------------------------------------------- addresses
NULL == 0
QHead == -1
Elems == 1..MaxElems
StackHead(depth) == -(2 + depth)

C_true == 1
C_false == 0

\* the i-th string over 1..MaxChar, shortest first and then in dictionary
\* order: "", then the one-character strings, then the two-character ones, ...
RECURSIVE NthString(_)
NthString(i) ==
    IF i = 0 THEN <<>>
    ELSE NthString((i - 1) \div MaxChar) \o <<((i - 1) % MaxChar) + 1>>

Strings == {NthString(i) : i \in 0..(MaxStrings - 1)}

InsertedStrings == {NthString(i) : i \in 0..(MaxInserted - 1)}

SizeMod == 2 ^ SizeBits

VARIABLES
    l,        \* the driver's queue handle: NULL or QHead
    mem,      \* address -> [next, prev], the struct list_head at that address
    value,    \* element -> its string (element_t.value), <<>> when not allocated
    alloc,    \* set of allocated blocks (sentinel and element_t records)
    valloc,   \* set of elements whose value string is allocated
    held,     \* elements returned by q_remove_head/q_remove_tail, owned by the caller
    call,     \* the most recent call: operation and arguments
    ret,      \* its return value (bool as 0/1, pointer as address, int)
    pre,      \* queue contents just before the most recent call
    buf,      \* bytes the most recent remove left in the caller's buffer
    fault     \* "none", or the fault the most recent call ran into

vars == <<l, mem, value, alloc, valloc, held, call, ret, pre, buf, fault>>

\* ------------------------------------------------- list.h primitives
\* queue.c is written against the Linux-style list API of list.h (included
\* through queue.h), which is not among the sources; the primitives below
\* are that API as queue.c uses it.  list_del only unlinks, list_del_init
\* also makes the node self-referential, and list_cut_position moves the
\* leading part of the list, up to and including the given node, to the
\* other head: q_get_mid returns the first node of a two-element list, and
\* q_sort returns on such a list only if the cut takes that node along.
INIT_LIST_HEAD(m, head) ==
    [m EXCEPT ![head] = [next |-> head, prev |-> head]]

list_empty(m, head) == m[head].next = head

list_is_singular(m, head) ==
    ~list_empty(m, head) /\ m[head].prev = m[head].next

\* insert node right after head
list_add(m, node, head) ==
    LET nxt == m[head].next
        m1 == [m EXCEPT ![nxt].prev = node]
        m2 == [m1 EXCEPT ![node].next = nxt]
        m3 == [m2 EXCEPT ![node].prev = head]
    IN  [m3 EXCEPT ![head].next = node]

\* insert node right before head
list_add_tail(m, node, head) ==
    LET prv == m[head].prev
        m1 == [m EXCEPT ![prv].next = node]
        m2 == [m1 EXCEPT ![node].next = head]
        m3 == [m2 EXCEPT ![node].prev = prv]
    IN  [m3 EXCEPT ![head].prev = node]

\* unlink node; its own next/prev are left as they were
list_del(m, node) ==
    LET nxt == m[node].next
        prv == m[node].prev
        m1 == [m EXCEPT ![nxt].prev = prv]
    IN  [m1 EXCEPT ![prv].next = nxt]

list_del_init(m, node) == INIT_LIST_HEAD(list_del(m, node), node)

\* append all nodes of list to the end of head, and leave list empty
list_splice_tail_init(m, list, head) ==
    IF list_empty(m, list) THEN INIT_LIST_HEAD(m, list)
    ELSE
        LET head_last == m[head].prev
            list_first == m[list].next
            list_last == m[list].prev
            m1 == [m EXCEPT ![head].prev = list_last]
            m2 == [m1 EXCEPT ![list_last].next = head]
            m3 == [m2 EXCEPT ![list_first].prev = head_last]
            m4 == [m3 EXCEPT ![head_last].next = list_first]
        IN  INIT_LIST_HEAD(m4, list)

\* move the nodes from the first one of head_from up to and including node
\* to head_to; head_from keeps the nodes after node
list_cut_position(m, head_to, head_from, node) ==
    LET head_from_first == m[head_from].next IN
    IF list_empty(m, head_from) THEN m
    ELSE IF head_from = node THEN INIT_LIST_HEAD(m, head_to)
    ELSE
        LET m1 == [m EXCEPT ![head_from].next = m[node].next]
            m2 == [m1 EXCEPT ![m1[head_from].next].prev = head_from]
            m3 == [m2 EXCEPT ![head_to].prev = node]
            m4 == [m3 EXCEPT ![node].next = head_to]
            m5 == [m4 EXCEPT ![head_to].next = head_from_first]
        IN  [m5 EXCEPT ![m5[head_to].next].prev = head_to]

\* strcmp(a, b): negative, zero or positive
RECURSIVE strcmp(_, _)
strcmp(a, b) ==
    IF a = <<>> /\ b = <<>> THEN 0
    ELSE IF a = <<>> THEN -1
    ELSE IF b = <<>> THEN 1
    ELSE IF Head(a) # Head(b) THEN Head(a) - Head(b)
    ELSE strcmp(Tail(a), Tail(b))

\* ------------------------------------------------------ program state
\* The functions of queue.c are operators on a record S of the heap
\* ([mem, value, alloc, valloc]) extended with the outcome of the call
\* (ret, fault, and for the removes buf).

FreedNode == [next |-> NULL, prev |-> NULL]

Min(a, b) == IF a < b THEN a ELSE b

\* malloc(sizeof(element_t)): the lowest free element block
malloc_element(S) == CHOOSE e \in Elems \ S.alloc : \A o \in Elems \ S.alloc : e <= o

\* free(p) for a list_head or element_t block; freeing a block twice is a fault
free_block(S, p) ==
    IF p \notin S.alloc THEN [S EXCEPT !.fault = "double_free"]
    ELSE [S EXCEPT !.alloc = @ \ {p}, !.mem[p] = FreedNode]

\* free(e->value)
free_value(S, e) ==
    IF e \notin S.valloc THEN [S EXCEPT !.fault = "double_free"]
    ELSE [S EXCEPT !.valloc = @ \ {e}, !.value[e] = <<>>]

q_release_element(S, e) == free_block(free_value(S, e), e)

\* a read of the list_head at p: reading a released block is a fault
deref(S, p) ==
    IF p \in S.alloc THEN S ELSE [S EXCEPT !.fault = "use_after_free"]

\* q_new(): ok = FALSE is malloc returning NULL
q_new(S, ok) ==
    IF ~ok THEN [S EXCEPT !.ret = NULL]
    ELSE [S EXCEPT !.alloc = @ \cup {QHead},
                   !.mem = INIT_LIST_HEAD(S.mem, QHead),
                   !.ret = QHead]

\* the body of list_for_each_entry_safe in q_free, from entry e with s read ahead
RECURSIVE q_free_loop(_, _, _, _)
q_free_loop(S, head, e, s) ==
    IF e = head \/ S.fault # "none" THEN S
    ELSE LET S1 == deref(q_release_element(S, e), s)
         IN  q_free_loop(S1, head, s, S1.mem[s].next)

q_free(S, head) ==
    IF head = NULL THEN S
    ELSE
        LET e == S.mem[head].next
            S1 == q_free_loop(S, head, e, S.mem[e].next)
        IN  free_block(S1, head)

\* q_insert_head linking the element with list_add_tail
q_insert_head_at_tail(S, head, s, failing) ==
    IF head = NULL THEN [S EXCEPT !.ret = C_false]
    ELSE IF failing = "element" THEN [S EXCEPT !.ret = C_false]
    ELSE
        LET new == malloc_element(S)
            S1 == [S EXCEPT !.alloc = @ \cup {new}]
        IN  IF failing = "value"
            THEN [free_block(S1, new) EXCEPT !.ret = C_false]
            ELSE [S1 EXCEPT !.valloc = @ \cup {new},
                            !.value[new] = s,
                            !.mem = list_add_tail(S1.mem, new, head),
                            !.ret = C_true]

\* failing = "none", "element" (malloc fails) or "value" (strdup fails)
q_insert_head(S, head, s, failing) ==
    IF head = NULL THEN [S EXCEPT !.ret = C_false]
    ELSE IF failing = "element" THEN [S EXCEPT !.ret = C_false]
    ELSE
        LET new == malloc_element(S)
            S1 == [S EXCEPT !.alloc = @ \cup {new}]
        IN  IF failing = "value"
            THEN [free_block(S1, new) EXCEPT !.ret = C_false]
            ELSE [S1 EXCEPT !.valloc = @ \cup {new},
                            !.value[new] = s,
                            !.mem = list_add(S1.mem, new, head),
                            !.ret = C_true]

\* q_insert_tail without the free(new) of line 79
q_insert_tail_leaking(S, head, s, failing) ==
    IF head = NULL THEN [S EXCEPT !.ret = C_false]
    ELSE IF failing = "element" THEN [S EXCEPT !.ret = C_false]
    ELSE
        LET new == malloc_element(S)
            S1 == [S EXCEPT !.alloc = @ \cup {new}]
        IN  IF failing = "value"
            THEN [S1 EXCEPT !.ret = C_false]
            ELSE [S1 EXCEPT !.valloc = @ \cup {new},
                            !.value[new] = s,
                            !.mem = list_add_tail(S1.mem, new, head),
                            !.ret = C_true]

q_insert_tail(S, head, s, failing) ==
    IF head = NULL THEN [S EXCEPT !.ret = C_false]
    ELSE IF failing = "element" THEN [S EXCEPT !.ret = C_false]
    ELSE
        LET new == malloc_element(S)
            S1 == [S EXCEPT !.alloc = @ \cup {new}]
        IN  IF failing = "value"
            THEN [free_block(S1, new) EXCEPT !.ret = C_false]
            ELSE [S1 EXCEPT !.valloc = @ \cup {new},
                            !.value[new] = s,
                            !.mem = list_add_tail(S1.mem, new, head),
                            !.ret = C_true]

\* strncpy(sp, v, bufsize - 1) writes exactly (bufsize - 1) mod 2^SizeBits
\* bytes, at offsets 0 .. that - 1
strncpy_count(bufsize) == (bufsize - 1) % SizeMod

\* offsets of sp written by lines 107-108: the strncpy and the terminator
written_offsets(bufsize) ==
    (0 .. (strncpy_count(bufsize) - 1)) \cup {bufsize - 1}

\* the bufsize bytes at sp afterwards: the value truncated, then zeros
copied_bytes(v, bufsize) ==
    [i \in 1..bufsize |->
        IF i <= Min(Len(v), strncpy_count(bufsize)) THEN v[i] ELSE 0]

\* lines 106-109 / 123-126; sp is NULL or the caller's buffer of bufsize bytes
copy_out(S, ele, sp, bufsize) ==
    IF sp = NULL THEN S
    ELSE IF written_offsets(bufsize) \subseteq 0..(bufsize - 1)
    THEN [S EXCEPT !.buf = copied_bytes(S.value[ele], bufsize)]
    ELSE [S EXCEPT !.fault = "overflow"]

q_remove_head(S, head, sp, bufsize) ==
    IF head = NULL THEN [S EXCEPT !.ret = NULL]
    ELSE IF list_empty(S.mem, head) THEN [S EXCEPT !.ret = NULL]
    ELSE
        LET ele == S.mem[head].next
            S1 == [S EXCEPT !.mem = list_del_init(S.mem, ele)]
        IN  [copy_out(S1, ele, sp, bufsize) EXCEPT !.ret = ele]

\* q_remove_tail unlinking with list_del instead of list_del_init
q_remove_tail_list_del(S, head, sp, bufsize) ==
    IF head = NULL THEN [S EXCEPT !.ret = NULL]
    ELSE IF list_empty(S.mem, head) THEN [S EXCEPT !.ret = NULL]
    ELSE
        LET ele == S.mem[head].prev
            S1 == [S EXCEPT !.mem = list_del(S.mem, ele)]
        IN  [copy_out(S1, ele, sp, bufsize) EXCEPT !.ret = ele]

q_remove_tail(S, head, sp, bufsize) ==
    IF head = NULL THEN [S EXCEPT !.ret = NULL]
    ELSE IF list_empty(S.mem, head) THEN [S EXCEPT !.ret = NULL]
    ELSE
        LET ele == S.mem[head].prev
            S1 == [S EXCEPT !.mem = list_del_init(S.mem, ele)]
        IN  [copy_out(S1, ele, sp, bufsize) EXCEPT !.ret = ele]

\* the list_for_each loop of q_size, at node n with count nodes seen
RECURSIVE q_size_loop(_, _, _, _)
q_size_loop(m, head, n, count) ==
    IF n = head THEN count
    ELSE q_size_loop(m, head, m[n].next, count + 1)

\* q_size with the sentinel counted as well
q_size_counting_head(m, head) ==
    IF head = NULL THEN 0
    ELSE IF list_empty(m, head) THEN 0
    ELSE q_size_loop(m, head, m[head].next, 1)

q_size(m, head) ==
    IF head = NULL THEN 0
    ELSE IF list_empty(m, head) THEN 0
    ELSE q_size_loop(m, head, m[head].next, 0)

\* q_get_mid_loop returning backward instead of forward
RECURSIVE q_get_mid_loop_backward(_, _, _)
q_get_mid_loop_backward(m, forward, backward) ==
    IF forward # backward /\ m[forward].next # backward
    THEN q_get_mid_loop_backward(m, m[forward].next, m[backward].prev)
    ELSE backward

RECURSIVE q_get_mid_loop(_, _, _)
q_get_mid_loop(m, forward, backward) ==
    IF forward # backward /\ m[forward].next # backward
    THEN q_get_mid_loop(m, m[forward].next, m[backward].prev)
    ELSE forward

q_get_mid(m, head) ==
    IF list_is_singular(m, head) THEN m[head].next
    ELSE q_get_mid_loop(m, m[head].next, m[head].prev)

\* q_delete_mid without the list_empty test of line 180
q_delete_mid_no_empty_test(S, head) ==
    IF head = NULL THEN [S EXCEPT !.ret = C_false]
    ELSE
        LET mid == q_get_mid(S.mem, head)
            S1 == [S EXCEPT !.mem = list_del(S.mem, mid)]
        IN  [q_release_element(S1, mid) EXCEPT !.ret = C_true]

\* q_delete_mid without the list_del of line 183
q_delete_mid_still_linked(S, head) ==
    IF head = NULL THEN [S EXCEPT !.ret = C_false]
    ELSE IF list_empty(S.mem, head) THEN [S EXCEPT !.ret = C_false]
    ELSE [q_release_element(S, q_get_mid(S.mem, head)) EXCEPT !.ret = C_true]

q_delete_mid(S, head) ==
    IF head = NULL THEN [S EXCEPT !.ret = C_false]
    ELSE IF list_empty(S.mem, head) THEN [S EXCEPT !.ret = C_false]
    ELSE
        LET mid == q_get_mid(S.mem, head)
            S1 == [S EXCEPT !.mem = list_del(S.mem, mid)]
        IN  [q_release_element(S1, mid) EXCEPT !.ret = C_true]

\* q_delete_dup_loop testing strcmp(...) <= 0 instead of == 0
RECURSIVE q_delete_dup_loop_le(_, _, _, _)
q_delete_dup_loop_le(S, head, e, s) ==
    IF e = head THEN S
    ELSE
        LET S1 == IF s # head /\ strcmp(S.value[e], S.value[s]) <= 0
                  THEN q_release_element([S EXCEPT !.mem = list_del(S.mem, e)], e)
                  ELSE S
        IN  q_delete_dup_loop_le(S1, head, s, S1.mem[s].next)

\* the list_for_each_entry_safe loop of q_delete_dup, at entry e with s read ahead
RECURSIVE q_delete_dup_loop(_, _, _, _)
q_delete_dup_loop(S, head, e, s) ==
    IF e = head \/ S.fault # "none" THEN S
    ELSE
        LET S1 == IF s # head /\ strcmp(S.value[e], S.value[s]) = 0
                  THEN q_release_element([S EXCEPT !.mem = list_del(S.mem, e)], e)
                  ELSE S
            S2 == deref(S1, s)
        IN  q_delete_dup_loop(S2, head, s, S2.mem[s].next)

q_delete_dup(S, head) ==
    IF head = NULL THEN [S EXCEPT !.ret = C_false]
    ELSE
        LET e == S.mem[head].next
            S1 == q_delete_dup_loop(S, head, e, S.mem[e].next)
        IN  [S1 EXCEPT !.ret = C_true]

\* q_swap_pair without line 221 (node2->next->prev = node1)
q_swap_pair_nobacklink(m, node1, node2) ==
    LET m1 == [m EXCEPT ![m[node1].prev].next = node2]
        m2 == [m1 EXCEPT ![node2].prev = m1[node1].prev]
        m4 == [m2 EXCEPT ![node1].next = m2[node2].next]
        m5 == [m4 EXCEPT ![node2].next = node1]
    IN  [m5 EXCEPT ![node1].prev = node2]

\* one iteration of the while loop of q_swap (lines 219-224)
q_swap_pair(m, node1, node2) ==
    LET m1 == [m EXCEPT ![m[node1].prev].next = node2]
        m2 == [m1 EXCEPT ![node2].prev = m1[node1].prev]
        m3 == [m2 EXCEPT ![m2[node2].next].prev = node1]
        m4 == [m3 EXCEPT ![node1].next = m3[node2].next]
        m5 == [m4 EXCEPT ![node2].next = node1]
    IN  [m5 EXCEPT ![node1].prev = node2]

\* q_swap_loop stepping from node2 instead of node1 (line 225)
RECURSIVE q_swap_loop_from_node2(_, _, _, _)
q_swap_loop_from_node2(m, head, node1, node2) ==
    IF node1 # head /\ node2 # head
    THEN LET m1 == q_swap_pair(m, node1, node2)
             n1 == m1[node2].next
         IN  q_swap_loop_from_node2(m1, head, n1, m1[n1].next)
    ELSE m

RECURSIVE q_swap_loop(_, _, _, _)
q_swap_loop(m, head, node1, node2) ==
    IF node1 # head /\ node2 # head
    THEN LET m1 == q_swap_pair(m, node1, node2)
             n1 == m1[node1].next
         IN  q_swap_loop(m1, head, n1, m1[n1].next)
    ELSE m

\* q_swap reads head->next first thing: a NULL head is dereferenced
q_swap(S, head) ==
    IF head = NULL THEN [S EXCEPT !.fault = "null_deref"]
    ELSE
        LET node1 == S.mem[head].next
        IN  [S EXCEPT !.mem = q_swap_loop(S.mem, head, node1, S.mem[node1].next)]

\* q_reverse_loop without line 244 (n->prev = s)
RECURSIVE q_reverse_loop_prev_kept(_, _, _, _)
q_reverse_loop_prev_kept(m, head, n, s) ==
    IF n = head THEN m
    ELSE
        LET m1 == [m EXCEPT ![n].next = m[n].prev]
        IN  q_reverse_loop_prev_kept(m1, head, s, m1[s].next)

\* the list_for_each_safe loop of q_reverse, at node n with s read ahead
RECURSIVE q_reverse_loop(_, _, _, _)
q_reverse_loop(m, head, n, s) ==
    IF n = head THEN m
    ELSE
        LET m1 == [m EXCEPT ![n].next = m[n].prev]
            m2 == [m1 EXCEPT ![n].prev = s]
        IN  q_reverse_loop(m2, head, s, m2[s].next)

\* q_reverse without the exchange of head->next and head->prev (lines 246-249)
q_reverse_head_kept(S, head) ==
    IF head = NULL THEN S
    ELSE IF list_empty(S.mem, head) THEN S
    ELSE
        LET n == S.mem[head].next
        IN  [S EXCEPT !.mem = q_reverse_loop(S.mem, head, n, S.mem[n].next)]

q_reverse(S, head) ==
    IF head = NULL THEN S
    ELSE IF list_empty(S.mem, head) THEN S
    ELSE
        LET n == S.mem[head].next
            m1 == q_reverse_loop(S.mem, head, n, S.mem[n].next)
            tmp == m1[head].next
            m2 == [m1 EXCEPT ![head].next = m1[head].prev]
        IN  [S EXCEPT !.mem = [m2 EXCEPT ![head].prev = tmp]]

\* merge_scan advancing while strcmp(...) <= 0 instead of < 0
RECURSIVE merge_scan_le(_, _, _, _, _)
merge_scan_le(m, val, H1, node1, node2) ==
    IF node1 # H1 /\ strcmp(val[node1], val[node2]) <= 0
    THEN merge_scan_le(m, val, H1, m[node1].next, node2)
    ELSE node1

\* the while loop of merge (lines 257-264): advance node1 over the elements
\* of H1 that are strictly smaller than the element at node2
RECURSIVE merge_scan(_, _, _, _, _)
merge_scan(m, val, H1, node1, node2) ==
    IF node1 # H1 /\ strcmp(val[node1], val[node2]) < 0
    THEN merge_scan(m, val, H1, m[node1].next, node2)
    ELSE node1

\* merge_loop linking node2 with list_add (after node1) instead of list_add_tail
RECURSIVE merge_loop_list_add(_, _, _, _, _, _)
merge_loop_list_add(m, val, H1, H2, node1, node2) ==
    IF list_empty(m, H2) THEN m
    ELSE
        LET n1 == merge_scan(m, val, H1, node1, node2)
        IN  IF n1 = H1
            THEN merge_loop_list_add(list_splice_tail_init(m, H2, H1), val, H1, H2, n1, NULL)
            ELSE
                LET next_node == m[node2].next
                    m1 == list_del_init(m, node2)
                    m2 == list_add(m1, node2, n1)
                IN  merge_loop_list_add(m2, val, H1, H2, n1, next_node)

\* the for loop of merge; after the splice H2 is empty and node2 is not read again
RECURSIVE merge_loop(_, _, _, _, _, _)
merge_loop(m, val, H1, H2, node1, node2) ==
    IF list_empty(m, H2) THEN m
    ELSE
        LET n1 == merge_scan(m, val, H1, node1, node2)
        IN  IF n1 = H1
            THEN merge_loop(list_splice_tail_init(m, H2, H1), val, H1, H2, n1, NULL)
            ELSE
                LET next_node == m[node2].next
                    m1 == list_del_init(m, node2)
                    m2 == list_add_tail(m1, node2, n1)
                IN  merge_loop(m2, val, H1, H2, n1, next_node)

merge(m, val, H1, H2) == merge_loop(m, val, H1, H2, m[H1].next, m[H2].next)

\* q_sort_cut with head and head2 exchanged in the call
q_sort_cut_exchanged(m, head, head2) ==
    list_cut_position(m, head, head2, q_get_mid(m, head))

\* lines 303-304 of q_sort, head2 being the frame's (empty) LIST_HEAD
q_sort_cut(m, head, head2) ==
    list_cut_position(m, head2, head, q_get_mid(m, head))

\* q_sort_rec merging head into head2 and then moving the result back
RECURSIVE q_sort_rec_merge_into_head2(_, _, _, _)
q_sort_rec_merge_into_head2(m, val, head, depth) ==
    IF head = NULL THEN m
    ELSE IF list_empty(m, head) \/ list_is_singular(m, head) THEN m
    ELSE
        LET h2 == StackHead(depth)
            m0 == (h2 :> [next |-> h2, prev |-> h2]) @@ m
            m1 == q_sort_cut(m0, head, h2)
            m2 == q_sort_rec_merge_into_head2(m1, val, head, depth + 1)
            m3 == q_sort_rec_merge_into_head2(m2, val, h2, depth + 1)
            m4 == merge(m3, val, h2, head)
            m5 == list_splice_tail_init(m4, h2, head)
        IN  [a \in DOMAIN m |-> m5[a]]

\* q_sort_rec without the recursive call on head2 (line 306)
RECURSIVE q_sort_rec_onehalf(_, _, _, _)
q_sort_rec_onehalf(m, val, head, depth) ==
    IF head = NULL THEN m
    ELSE IF list_empty(m, head) \/ list_is_singular(m, head) THEN m
    ELSE
        LET head2 == StackHead(depth)
            m0 == (head2 :> [next |-> head2, prev |-> head2]) @@ m
            m1 == list_cut_position(m0, head2, head, q_get_mid(m0, head))
            m2 == q_sort_rec_onehalf(m1, val, head, depth + 1)
            m4 == merge(m2, val, head, head2)
        IN  [a \in DOMAIN m |-> m4[a]]

\* q_sort on the heap; depth is the depth of the recursion, and the frame's
\* LIST_HEAD(head2) lives at StackHead(depth) until the frame returns
RECURSIVE q_sort_rec(_, _, _, _)
q_sort_rec(m, val, head, depth) ==
    IF head = NULL THEN m
    ELSE IF list_empty(m, head) \/ list_is_singular(m, head) THEN m
    ELSE
        LET head2 == StackHead(depth)
            m0 == (head2 :> [next |-> head2, prev |-> head2]) @@ m
            m1 == q_sort_cut(m0, head, head2)
            m2 == q_sort_rec(m1, val, head, depth + 1)
            m3 == q_sort_rec(m2, val, head2, depth + 1)
            m4 == merge(m3, val, head, head2)
        IN  [a \in DOMAIN m |-> m4[a]]

q_sort(S, head) == [S EXCEPT !.mem = q_sort_rec(S.mem, S.value, head, 0)]

\* ------------------------------------------------- observing the queue
\* the nodes met following next from head until head comes round again
\* (at most fuel of them)
RECURSIVE Walk(_, _, _, _)
Walk(m, head, n, fuel) ==
    IF n = head \/ n \notin DOMAIN m \/ fuel = 0 THEN <<>>
    ELSE <<n>> \o Walk(m, head, m[n].next, fuel - 1)

Order(m, head) ==
    IF head = NULL THEN <<>> ELSE Walk(m, head, m[head].next, MaxElems + 1)

ValuesOf(val, nodes) == [i \in 1..Len(nodes) |-> val[nodes[i]]]

Contents(m, val, head) ==
    [nodes |-> Order(m, head), vals |-> ValuesOf(val, Order(m, head))]

Range(f) == {f[i] : i \in DOMAIN f}

\* ---------------------------------------------------------- the driver
Buffer == 1    \* sp: the address of the caller's buffer (any non-NULL char *)

Heap ==
    [mem |-> mem, value |-> value, alloc |-> alloc, valloc |-> valloc,
     ret |-> 0, fault |-> "none", buf |-> <<>>]

\* the call that op follows at once, recorded for the two successions the
\* properties speak of: a q_remove_head right after a successful
\* q_insert_head, and a q_reverse right after a q_reverse
Follows(op) ==
    IF op = "q_remove_head" /\ call.op = "q_insert_head" /\ ret = C_true
    THEN "q_insert_head"
    ELSE IF op = "q_reverse" /\ call.op = "q_reverse" THEN "q_reverse"
    ELSE "none"

Call(op) ==
    [op |-> op, head |-> l, s |-> <<>>, sp |-> NULL, bufsize |-> 0,
     failing |-> "none", after |-> Follows(op)]

\* the state after a call c that left R
Return(c, R) ==
    /\ mem' = R.mem
    /\ value' = R.value
    /\ alloc' = R.alloc
    /\ valloc' = R.valloc
    /\ ret' = R.ret
    /\ fault' = R.fault
    /\ buf' = R.buf
    /\ call' = c
    /\ pre' = Contents(mem, value, l)

EmptyHeap ==
    [a \in {QHead} \cup Elems |-> FreedNode]

Init ==
    /\ l = QHead
    /\ mem = INIT_LIST_HEAD(EmptyHeap, QHead)
    /\ value = [e \in Elems |-> <<>>]
    /\ alloc = {QHead}
    /\ valloc = {}
    /\ held = {}
    /\ call = [op |-> "q_new", head |-> QHead, s |-> <<>>, sp |-> NULL,
               bufsize |-> 0, failing |-> "none", after |-> "none"]
    /\ ret = QHead
    /\ pre = [nodes |-> <<>>, vals |-> <<>>]
    /\ buf = <<>>
    /\ fault = "none"

QNew ==
    /\ fault = "none"
    /\ l = NULL
    /\ \E ok \in BOOLEAN :
        LET R == q_new(Heap, ok)
        IN  /\ Return(Call("q_new"), R)
            /\ l' = R.ret
    /\ UNCHANGED held

QFree ==
    /\ fault = "none"
    /\ Return(Call("q_free"), q_free(Heap, l))
    /\ l' = NULL
    /\ UNCHANGED held

QInsertHead ==
    /\ fault = "none"
    /\ Cardinality(alloc \cap Elems) < MaxLive
    /\ \E s \in InsertedStrings, failing \in {"none", "element", "value"} :
        Return([Call("q_insert_head") EXCEPT !.s = s, !.failing = failing],
               q_insert_head(Heap, l, s, failing))
    /\ UNCHANGED <<l, held>>

QInsertTail ==
    /\ fault = "none"
    /\ Cardinality(alloc \cap Elems) < MaxLive
    /\ \E s \in InsertedStrings, failing \in {"none", "element", "value"} :
        Return([Call("q_insert_tail") EXCEPT !.s = s, !.failing = failing],
               q_insert_tail(Heap, l, s, failing))
    /\ UNCHANGED <<l, held>>

\* the (sp, bufsize) pairs a remove is called with
BufferArgs ==
    {<<NULL, 0>>} \cup {<<Buffer, n>> : n \in 0..MaxBuf}

QRemoveHead ==
    /\ fault = "none"
    /\ \E a \in BufferArgs :
        LET R == q_remove_head(Heap, l, a[1], a[2])
        IN  /\ Return([Call("q_remove_head") EXCEPT !.sp = a[1], !.bufsize = a[2]], R)
            /\ held' = IF R.ret = NULL THEN held ELSE held \cup {R.ret}
    /\ UNCHANGED l

QRemoveTail ==
    /\ fault = "none"
    /\ \E a \in BufferArgs :
        LET R == q_remove_tail(Heap, l, a[1], a[2])
        IN  /\ Return([Call("q_remove_tail") EXCEPT !.sp = a[1], !.bufsize = a[2]], R)
            /\ held' = IF R.ret = NULL THEN held ELSE held \cup {R.ret}
    /\ UNCHANGED l

\* the caller releases an element a remove handed to it
QReleaseElement ==
    /\ fault = "none"
    /\ \E e \in held :
        /\ Return(Call("q_release_element"), q_release_element(Heap, e))
        /\ held' = held \ {e}
    /\ UNCHANGED l

QSize ==
    /\ fault = "none"
    /\ Return(Call("q_size"), [Heap EXCEPT !.ret = q_size(mem, l)])
    /\ UNCHANGED <<l, held>>

QDeleteMid ==
    /\ fault = "none"
    /\ Return(Call("q_delete_mid"), q_delete_mid(Heap, l))
    /\ UNCHANGED <<l, held>>

QDeleteDup ==
    /\ fault = "none"
    /\ Return(Call("q_delete_dup"), q_delete_dup(Heap, l))
    /\ UNCHANGED <<l, held>>

QSwap ==
    /\ fault = "none"
    /\ Return(Call("q_swap"), q_swap(Heap, l))
    /\ UNCHANGED <<l, held>>

QReverse ==
    /\ fault = "none"
    /\ Return(Call("q_reverse"), q_reverse(Heap, l))
    /\ UNCHANGED <<l, held>>

QSort ==
    /\ fault = "none"
    /\ Return(Call("q_sort"), q_sort(Heap, l))
    /\ UNCHANGED <<l, held>>

Next ==
    \/ QNew
    \/ QFree
    \/ QInsertHead
    \/ QInsertTail
    \/ QRemoveHead
    \/ QRemoveTail
    \/ QReleaseElement
    \/ QSize
    \/ QDeleteMid
    \/ QDeleteDup
    \/ QSwap
    \/ QReverse
    \/ QSort

Spec == Init /\ [][Next]_vars

\* A second specification for the structural algorithms: the queue starts
\* holding any list of up to MaxElems strings (the state MaxElems calls of
\* q_insert_tail leave), and the algorithms are applied to it.
ListHeap(n) ==
    [a \in {QHead} \cup Elems |->
        IF a = QHead
        THEN [next |-> IF n = 0 THEN QHead ELSE 1, prev |-> IF n = 0 THEN QHead ELSE n]
        ELSE IF a <= n
        THEN [next |-> IF a = n THEN QHead ELSE a + 1,
              prev |-> IF a = 1 THEN QHead ELSE a - 1]
        ELSE FreedNode]

InitAlg ==
    \E n \in 0..MaxElems :
        \E vs \in [1..n -> Strings] :
            /\ l = QHead
            /\ mem = ListHeap(n)
            /\ value = [e \in Elems |-> IF e <= n THEN vs[e] ELSE <<>>]
            /\ alloc = {QHead} \cup 1..n
            /\ valloc = 1..n
            /\ held = {}
            /\ call = [op |-> "q_insert_tail", head |-> QHead, s |-> <<>>, sp |-> NULL,
                       bufsize |-> 0, failing |-> "none", after |-> "none"]
            /\ ret = C_true
            /\ pre = [nodes |-> <<>>, vals |-> <<>>]
            /\ buf = <<>>
            /\ fault = "none"

NextAlg ==
    \/ QSize
    \/ QDeleteMid
    \/ QDeleteDup
    \/ QSwap
    \/ QReverse
    \/ QSort

SpecAlg == InitAlg /\ [][NextAlg]_vars

\* ----------------------------------------------------------- properties
Nodes(m, head) == {head} \cup Range(Order(m, head))

\* k steps along next (dir = "next") or prev (dir = "prev") from node n
RECURSIVE Steps(_, _, _, _)
Steps(m, dir, n, k) ==
    IF k = 0 THEN n
    ELSE IF n \notin DOMAIN m THEN NULL
    ELSE Steps(m, dir, IF dir = "next" THEN m[n].next ELSE m[n].prev, k - 1)

DoublyLinked(m, head) ==
    \A n \in Nodes(m, head) :
        /\ m[n].next \in DOMAIN m
        /\ m[n].prev \in DOMAIN m
        /\ m[m[n].next].prev = n
        /\ m[m[n].prev].next = n

Circular(m, head) ==
    \E k \in 1..(MaxElems + 1) : Steps(m, "next", head, k) = head

\* C1: after any sequence of calls on a queue created empty, every node n
\* reachable from the sentinel (the sentinel included) has n.next.prev = n
\* and n.prev.next = n, and following next from the sentinel comes back to
\* the sentinel.
C1_LinksConsistent ==
    l # NULL => DoublyLinked(mem, l) /\ Circular(mem, l)

\* a q_swap has just exchanged a pair in a queue of three or more elements
C1_Witness ==
    /\ l # NULL
    /\ call.op = "q_swap"
    /\ Len(Order(mem, l)) >= 3
    /\ Order(mem, l) # pre.nodes

\* C2 as stated: next followed exactly q_size() times from the sentinel is
\* the sentinel again, and likewise prev.
C2_SizeStepsReturn ==
    l # NULL =>
        /\ Steps(mem, "next", l, q_size(mem, l)) = l
        /\ Steps(mem, "prev", l, q_size(mem, l)) = l

\* C2 amended: next followed exactly q_size() + 1 times from the sentinel is
\* the sentinel again, and likewise prev (q_size() steps end on the last,
\* respectively the first, element).
C2_SizePlusOneStepsReturn ==
    l # NULL =>
        /\ Steps(mem, "next", l, q_size(mem, l) + 1) = l
        /\ Steps(mem, "prev", l, q_size(mem, l) + 1) = l

\* q_size has just counted a queue of two or more elements
C2_Witness ==
    /\ l # NULL
    /\ call.op = "q_size"
    /\ ret >= 2
    /\ ret = q_size(mem, l)

Now == Contents(mem, value, l)

Seq2Bag(sq) == [v \in Range(sq) |-> Cardinality({i \in DOMAIN sq : sq[i] = v})]

NonDecreasing(vals) ==
    \A i \in 1..(Len(vals) - 1) : strcmp(vals[i], vals[i + 1]) <= 0

HandleOps ==
    {"q_free", "q_insert_head", "q_insert_tail", "q_remove_head", "q_remove_tail",
     "q_size", "q_delete_mid", "q_delete_dup", "q_swap", "q_reverse", "q_sort"}

\* C4: every queue operation called with a NULL handle returns its
\* no-op/false/NULL/zero result without dereferencing the handle.
C4_NullHandleNoFault ==
    call.op \in HandleOps /\ call.head = NULL =>
        fault = "none" /\ ret = 0

\* s without its i-th element
RemoveAt(sq, i) == [j \in 1..(Len(sq) - 1) |-> IF j < i THEN sq[j] ELSE sq[j + 1]]

\* C5: for a list of n >= 1 elements q_delete_mid returns true and removes
\* exactly the element at zero-based index floor(n/2), the others keeping
\* their order.
C5_DeleteMidIsFloorHalf ==
    call.op = "q_delete_mid" /\ Len(pre.nodes) >= 1 =>
        /\ ret = C_true
        /\ Now.nodes = RemoveAt(pre.nodes, (Len(pre.nodes) \div 2) + 1)
        /\ Now.vals = RemoveAt(pre.vals, (Len(pre.nodes) \div 2) + 1)

\* the indices of a sequence of values that end a maximal run of equal
\* adjacent values
RunEnds(vals) ==
    {i \in DOMAIN vals : i = Len(vals) \/ vals[i] # vals[i + 1]}

\* the subsequence of sq at the indices in keep
RECURSIVE Pick(_, _, _)
Pick(sq, keep, i) ==
    IF i > Len(sq) THEN <<>>
    ELSE (IF i \in keep THEN <<sq[i]>> ELSE <<>>) \o Pick(sq, keep, i + 1)

StrictlyIncreasing(vals) ==
    \A i \in 1..(Len(vals) - 1) : strcmp(vals[i], vals[i + 1]) < 0

\* C6: q_delete_dup collapses each maximal run of adjacent equal values to
\* its last element and leaves every other element in place and in order;
\* on an ascending input the result holds each distinct value once, in
\* ascending order; it returns true for every non-NULL list, the empty one
\* included.
C6_DeleteDupKeepsRunEnds ==
    call.op = "q_delete_dup" /\ call.head # NULL =>
        /\ ret = C_true
        /\ Now.nodes = Pick(pre.nodes, RunEnds(pre.vals), 1)
        /\ Now.vals = Pick(pre.vals, RunEnds(pre.vals), 1)
        /\ (NonDecreasing(pre.vals) =>
                /\ StrictlyIncreasing(Now.vals)
                /\ Range(Now.vals) = Range(pre.vals))

\* q_delete_dup has just collapsed a run of three equal values in a sorted
\* list that holds another value too
C6_Witness ==
    /\ call.op = "q_delete_dup"
    /\ call.head # NULL
    /\ NonDecreasing(pre.vals)
    /\ \E i \in 1..(Len(pre.vals) - 2) :
        pre.vals[i] = pre.vals[i + 1] /\ pre.vals[i + 1] = pre.vals[i + 2]
    /\ Len(Now.nodes) >= 2
    /\ Len(Now.nodes) = Len(pre.nodes) - 2

\* e1, e0, e3, e2, ... : each complete pair exchanged, an odd last element kept
SwapPairs(sq) ==
    [i \in 1..Len(sq) |->
        IF i % 2 = 1 THEN (IF i < Len(sq) THEN sq[i + 1] ELSE sq[i])
        ELSE sq[i - 1]]

\* C7: for a non-NULL list e0..e(n-1), after q_swap the order is
\* e1,e0,e3,e2,...; with n odd the last element stays last; the set of nodes
\* in the list is unchanged.
C7_SwapExchangesPairs ==
    call.op = "q_swap" /\ call.head # NULL =>
        /\ Now.nodes = SwapPairs(pre.nodes)
        /\ Now.vals = SwapPairs(pre.vals)
        /\ Range(Now.nodes) = Range(pre.nodes)
        /\ Len(Now.nodes) = Len(pre.nodes)

\* q_swap has just run on a list of an odd number (three or more) of elements
C7_Witness ==
    /\ call.op = "q_swap"
    /\ call.head # NULL
    /\ Len(pre.nodes) >= 3
    /\ Len(pre.nodes) % 2 = 1
    /\ Now.nodes # pre.nodes

\* C8: q_reverse applied twice in succession restores exactly the original
\* front-to-back order of the same nodes (pre is the list before the first
\* of the two calls).
C8_ReverseTwiceRestores ==
    [][call.op = "q_reverse" /\ call'.op = "q_reverse" =>
        /\ Now'.nodes = pre.nodes
        /\ Now'.vals = pre.vals]_vars

\* a q_reverse has just run on a list of three or more elements that the
\* call before it, a q_reverse too, had left in the opposite order
C8_Witness ==
    /\ call.op = "q_reverse"
    /\ call.after = "q_reverse"
    /\ Len(Now.nodes) >= 3
    /\ Len(pre.nodes) = Len(Now.nodes)
    /\ \A i \in DOMAIN Now.nodes : Now.nodes[i] = pre.nodes[Len(pre.nodes) + 1 - i]

\* C9: a successful q_insert_head(V) immediately followed by a q_remove_head
\* that returns hands back an element whose value is V, and afterwards
\* q_size and the order of the remaining elements are as before the insert
\* (pre is the list before the insert).
C9_InsertRemoveHeadRoundTrip ==
    [][/\ call.op = "q_insert_head"
       /\ ret = C_true
       /\ call'.op = "q_remove_head"
       /\ fault' = "none"
       =>
       /\ ret' \in Elems
       /\ value'[ret'] = call.s
       /\ Now'.nodes = pre.nodes
       /\ Now'.vals = pre.vals
       /\ q_size(mem', l') = Len(pre.nodes)]_vars

\* a q_remove_head right after a successful q_insert_head has just handed
\* back an element of a queue that still holds two or more elements
C9_Witness ==
    /\ call.op = "q_remove_head"
    /\ call.after = "q_insert_head"
    /\ fault = "none"
    /\ ret \in held
    /\ Len(pre.nodes) >= 3
    /\ Now.nodes = Tail(pre.nodes)
    /\ value[ret] # <<>>

\* C10: when the allocation of the element record or of the value copy
\* fails in q_insert_head or q_insert_tail, the call returns false, the
\* links and the size of the list are as before the call, and every block
\* allocated in the call has been released.
C10_FailedInsertChangesNothing ==
    [][/\ call'.op \in {"q_insert_head", "q_insert_tail"}
       /\ call'.head # NULL
       /\ call'.failing # "none"
       =>
       /\ ret' = C_false
       /\ mem' = mem
       /\ q_size(mem', l') = q_size(mem, l)
       /\ alloc' = alloc
       /\ valloc' = valloc
       /\ value' = value]_vars

\* the strdup of a q_insert_tail on a non-empty queue has just failed
C10_Witness ==
    /\ call.op = "q_insert_tail"
    /\ call.head # NULL
    /\ call.failing = "value"
    /\ ret = C_false
    /\ Len(Now.nodes) >= 1

\* C11: on an empty (non-NULL) list q_remove_head and q_remove_tail return
\* NULL and q_delete_mid returns false, and the list is still empty with the
\* sentinel self-referential and nothing written to the caller's buffer.
C11_EmptyListRefused ==
    /\ call.op \in {"q_remove_head", "q_remove_tail", "q_delete_mid"}
    /\ call.head # NULL
    /\ pre.nodes = <<>>
    =>
    /\ ret = 0
    /\ fault = "none"
    /\ l = call.head
    /\ mem[l] = [next |-> l, prev |-> l]
    /\ Now.nodes = <<>>
    /\ buf = <<>>

\* a q_remove_head given a buffer has just been refused on an empty list
C11_Witness ==
    /\ call.op = "q_remove_head"
    /\ call.head # NULL
    /\ call.sp = Buffer
    /\ call.bufsize >= 1
    /\ pre.nodes = <<>>
    /\ ret = NULL

Last(sq) == sq[Len(sq)]

Front(sq) == SubSeq(sq, 1, Len(sq) - 1)

\* C12: on a non-NULL list a successful q_insert_head makes the new element
\* the first and q_insert_tail makes it the last; a q_remove_head that
\* returns hands back the first element and q_remove_tail the last; the
\* other elements keep their order, and the removed element is no longer
\* reachable from the sentinel, its node is self-referential and its value
\* is still allocated.
C12_InsertRemoveEnds ==
    /\ (call.op = "q_insert_head" /\ ret = C_true =>
            /\ Now.nodes = <<Head(Now.nodes)>> \o pre.nodes
            /\ Now.vals = <<call.s>> \o pre.vals
            /\ Head(Now.nodes) \notin Range(pre.nodes))
    /\ (call.op = "q_insert_tail" /\ ret = C_true =>
            /\ Now.nodes = pre.nodes \o <<Last(Now.nodes)>>
            /\ Now.vals = pre.vals \o <<call.s>>
            /\ Last(Now.nodes) \notin Range(pre.nodes))
    /\ (call.op = "q_remove_head" /\ pre.nodes # <<>> /\ fault = "none" =>
            /\ ret = Head(pre.nodes)
            /\ Now.nodes = Tail(pre.nodes)
            /\ Now.vals = Tail(pre.vals)
            /\ value[ret] = Head(pre.vals))
    /\ (call.op = "q_remove_tail" /\ pre.nodes # <<>> /\ fault = "none" =>
            /\ ret = Last(pre.nodes)
            /\ Now.nodes = Front(pre.nodes)
            /\ Now.vals = Front(pre.vals)
            /\ value[ret] = Last(pre.vals))
    /\ (call.op \in {"q_remove_head", "q_remove_tail"} /\ pre.nodes # <<>>
            /\ fault = "none" =>
            /\ ret \notin Range(Now.nodes)
            /\ mem[ret] = [next |-> ret, prev |-> ret]
            /\ ret \in alloc
            /\ ret \in valloc)

\* a q_remove_tail has just handed back the last of three elements
C12_Witness ==
    /\ call.op = "q_remove_tail"
    /\ fault = "none"
    /\ Len(pre.nodes) >= 3
    /\ ret = Last(pre.nodes)
    /\ ret \in held
    /\ Len(Now.nodes) = Len(pre.nodes) - 1

\* C13: a remove that takes an element and is given a buffer of bufsize
\* bytes writes only at offsets in [0, bufsize): at most bufsize - 1 bytes
\* of the value and a terminator, for every bufsize, 0 included.
C13_WritesInsideBuffer ==
    /\ call.op \in {"q_remove_head", "q_remove_tail"}
    /\ call.sp # NULL
    /\ pre.nodes # <<>>
    =>
    /\ written_offsets(call.bufsize) \subseteq 0..(call.bufsize - 1)
    /\ strncpy_count(call.bufsize) <= call.bufsize - 1
    /\ fault = "none"

Reversed(sq) == [i \in 1..Len(sq) |-> sq[Len(sq) + 1 - i]]

\* the nodes met following prev from head until head comes round again
RECURSIVE WalkBack(_, _, _, _)
WalkBack(m, head, n, fuel) ==
    IF n = head \/ n \notin DOMAIN m \/ fuel = 0 THEN <<>>
    ELSE <<n>> \o WalkBack(m, head, m[n].prev, fuel - 1)

\* C14: for a non-NULL list e0..e(n-1), after one q_reverse the
\* front-to-back order is e(n-1)..e0 (and back-to-front e0..e(n-1)), with
\* the same nodes: none allocated, freed or given another value; an empty
\* list is left as it was.
C14_ReverseOnce ==
    [][call'.op = "q_reverse" /\ call'.head # NULL =>
        /\ Now'.nodes = Reversed(Now.nodes)
        /\ Now'.vals = Reversed(Now.vals)
        /\ WalkBack(mem', l', mem'[l'].prev, MaxElems + 1) = Now.nodes
        /\ alloc' = alloc
        /\ valloc' = valloc
        /\ value' = value
        /\ (Now.nodes = <<>> => mem' = mem)]_vars

\* a q_reverse has just turned round a list of three or more elements
C14_Witness ==
    /\ call.op = "q_reverse"
    /\ call.head # NULL
    /\ Len(pre.nodes) >= 3
    /\ Now.nodes = Reversed(pre.nodes)
    /\ Now.nodes # pre.nodes

\* ------------------------------------------- the frame of one q_sort call
\* A third specification follows one call of q_sort statement by statement,
\* its stack-local sentinel head2 kept in the heap: the lists under head
\* (QHead) and head2 are any list with head2 empty (the state line 303
\* leaves) or any two sorted lists (the arguments merge is written for).
head2 == StackHead(0)

FrameHeap(k, n) ==
    [a \in {head2, QHead} \cup Elems |->
        IF a = QHead
        THEN [next |-> IF k = 0 THEN QHead ELSE 1, prev |-> IF k = 0 THEN QHead ELSE k]
        ELSE IF a = head2
        THEN [next |-> IF k = n THEN head2 ELSE k + 1, prev |-> IF k = n THEN head2 ELSE n]
        ELSE IF a <= k
        THEN [next |-> IF a = k THEN QHead ELSE a + 1,
              prev |-> IF a = 1 THEN QHead ELSE a - 1]
        ELSE IF a <= n
        THEN [next |-> IF a = n THEN head2 ELSE a + 1,
              prev |-> IF a = k + 1 THEN head2 ELSE a - 1]
        ELSE FreedNode]

\* the contents of the two lists of the frame
FrameContents ==
    [nodes |-> Order(mem, QHead), vals |-> ValuesOf(value, Order(mem, QHead)),
     nodes2 |-> Order(mem, head2), vals2 |-> ValuesOf(value, Order(mem, head2))]

InitFrame ==
    \E n \in 0..MaxElems :
        \E k \in 0..n :
            \E vs \in [1..n -> Strings] :
                /\ \/ k = n
                   \/ /\ NonDecreasing([i \in 1..k |-> vs[i]])
                      /\ NonDecreasing([i \in 1..(n - k) |-> vs[k + i]])
                /\ l = QHead
                /\ mem = FrameHeap(k, n)
                /\ value = [e \in Elems |-> IF e <= n THEN vs[e] ELSE <<>>]
                /\ alloc = {QHead} \cup 1..n
                /\ valloc = 1..n
                /\ held = {}
                /\ call = [op |-> "LIST_HEAD", head |-> QHead, s |-> <<>>, sp |-> NULL,
                           bufsize |-> 0, failing |-> "none", after |-> "none"]
                /\ ret = 0
                /\ pre = [nodes |-> <<>>, vals |-> <<>>, nodes2 |-> <<>>, vals2 |-> <<>>]
                /\ buf = <<>>
                /\ fault = "none"

\* a statement of the frame that leaves the heap m
FrameStep(op, m) ==
    /\ mem' = m
    /\ call' = [op |-> op, head |-> QHead, s |-> <<>>, sp |-> NULL,
                bufsize |-> 0, failing |-> "none", after |-> "none"]
    /\ pre' = FrameContents
    /\ UNCHANGED <<l, value, alloc, valloc, held, ret, buf, fault>>

\* lines 300-304: past the early return, head2 fresh, the cut at q_get_mid
SortCut ==
    /\ fault = "none"
    /\ list_empty(mem, head2)
    /\ ~ (list_empty(mem, QHead) \/ list_is_singular(mem, QHead))
    /\ FrameStep("list_cut_position", q_sort_cut(mem, QHead, head2))

\* lines 305-306: the two recursive calls, on head and then on head2
SortHalves ==
    /\ fault = "none"
    /\ call.op = "list_cut_position"
    /\ FrameStep("q_sort", q_sort_rec(q_sort_rec(mem, value, QHead, 1), value, head2, 1))

\* line 307: merge(head, &head2), its two arguments sorted
SortMerge ==
    /\ fault = "none"
    /\ call.op # "list_cut_position"
    /\ NonDecreasing(FrameContents.vals)
    /\ NonDecreasing(FrameContents.vals2)
    /\ FrameStep("merge", merge(mem, value, QHead, head2))

NextFrame ==
    \/ SortCut
    \/ SortHalves
    \/ SortMerge

SpecFrame == InitFrame /\ [][NextFrame]_vars

\* the elements of sq that are in S, in the order of sq
Among(sq, S) == SelectSeq(sq, LAMBDA x : x \in S)

\* the place of x in sq
PosIn(sq, x) == CHOOSE i \in DOMAIN sq : sq[i] = x

\* C15: merge(H1, H2) on two disjoint sorted lists (either may be empty)
\* leaves H2 empty, its sentinel pointing at itself, and H1 sorted in
\* non-decreasing order, well linked, holding exactly the nodes the two
\* lists held before the call.
C15_MergeResult ==
    call.op = "merge" =>
        /\ list_empty(mem, head2)
        /\ mem[head2] = [next |-> head2, prev |-> head2]
        /\ NonDecreasing(Now.vals)
        /\ DoublyLinked(mem, QHead)
        /\ Circular(mem, QHead)
        /\ Len(Now.nodes) = Len(pre.nodes) + Len(pre.nodes2)
        /\ Range(Now.nodes) = Range(pre.nodes) \cup Range(pre.nodes2)

\* a merge of two lists of two elements that interleaves them
C15_Witness ==
    /\ call.op = "merge"
    /\ fault = "none"
    /\ Len(pre.nodes) >= 2
    /\ Len(pre.nodes2) >= 2
    /\ Now.nodes # pre.nodes \o pre.nodes2
    /\ Now.nodes # pre.nodes2 \o pre.nodes
    /\ list_empty(mem, head2)

\* C16: in merge(H1, H2) the scan of H1 stops at an element that compares
\* equal to the H2 element; in the result every H2 element comes before
\* every H1 element of equal value, the first H1 element of a value that H2
\* also holds has an H2 element of that value right before it, and the
\* elements of each input list keep their relative order.
C16_MergeTies ==
    [][call'.op = "merge" =>
        LET H1 == Order(mem, QHead)
            H2 == Order(mem, head2)
            res == Order(mem', QHead)
        IN  /\ \A i \in DOMAIN H1 : \A j \in DOMAIN H2 :
                  strcmp(value[H1[i]], value[H2[j]]) = 0 =>
                      /\ merge_scan(mem, value, QHead, H1[i], H2[j]) = H1[i]
                      /\ PosIn(res, H2[j]) < PosIn(res, H1[i])
                      /\ (\A h \in 1..(i - 1) : value[H1[h]] # value[H1[i]]) =>
                            /\ res[PosIn(res, H1[i]) - 1] \in Range(H2)
                            /\ value[res[PosIn(res, H1[i]) - 1]] = value[H1[i]]
            /\ Among(res, Range(H1)) = H1
            /\ Among(res, Range(H2)) = H2
    ]_vars

\* a merge in which an H1 element and an H2 element have equal values and
\* each list has two elements
C16_Witness ==
    /\ call.op = "merge"
    /\ fault = "none"
    /\ Len(pre.nodes) >= 2
    /\ Len(pre.nodes2) >= 2
    /\ \E i \in DOMAIN pre.vals : \E j \in DOMAIN pre.vals2 :
          /\ pre.vals[i] = pre.vals2[j]
          /\ PosIn(Now.nodes, pre.nodes2[j]) < PosIn(Now.nodes, pre.nodes[i])

Released == Range(pre.nodes) \ Range(Now.nodes)

\* C20: over any sequence of operations no block is released twice and no
\* released block is read; every element reachable from the sentinel, and
\* every element a remove handed to the caller, is allocated with its
\* value; the elements q_delete_mid and q_delete_dup release are unlinked;
\* q_free releases every reachable element and then the sentinel, and leaves
\* allocated exactly the elements the caller holds.
C20_ReleaseDiscipline ==
    /\ fault \notin {"double_free", "use_after_free"}
    /\ l # NULL =>
        /\ l \in alloc
        /\ Range(Now.nodes) \subseteq alloc \cap valloc
        /\ Range(Now.nodes) \cap held = {}
    /\ held \subseteq alloc \cap valloc
    /\ call.op = "q_delete_mid" /\ ret = C_true =>
        /\ Cardinality(Released) = 1
        /\ Released \cap (alloc \cup valloc) = {}
        /\ Len(Now.nodes) = Len(pre.nodes) - 1
    /\ call.op = "q_delete_dup" /\ call.head # NULL =>
        /\ Released \cap (alloc \cup valloc) = {}
        /\ Len(Now.nodes) = Len(pre.nodes) - Cardinality(Released)
    /\ call.op = "q_free" /\ call.head # NULL =>
        /\ Range(pre.nodes) \cap (alloc \cup valloc) = {}
        /\ call.head \notin alloc
        /\ alloc = held
        /\ valloc = held

\* q_free has released a queue of two elements while the caller holds a
\* removed element
C20_Witness ==
    /\ call.op = "q_free"
    /\ call.head # NULL
    /\ fault = "none"
    /\ Len(pre.nodes) >= 2
    /\ held # {}
====
